---- MODULE Spec2Model ----
(***************************************************************************)
(* A model of the category framework excerpt of Sage:                      *)
(*   - sage/categories/cartesian_product.py  (CartesianProductFunctor,     *)
(*     CartesianProductsCategory),                                         *)
(*   - sage/categories/examples/finite_dimensional_lie_algebras_with_      *)
(*     basis.py  (AbelianLieAlgebra),                                      *)
(*   - conftest.py  (the add_imports fixture).                             *)
(* The specifications share the module; each moves its own variables and   *)
(* leaves the others alone:                                                *)
(*   SpecCat   categories and the CartesianProducts() accessor             *)
(*   Spec      calls of cartesian_product(args), registry and cache        *)
(*   SpecPath  the branch cartesian_product(args) takes                    *)
(*   SpecLie   AbelianLieAlgebra construction, subalgebras and brackets    *)
(*   SpecTest  the pytest session running doctests                         *)
(***************************************************************************)
EXTENDS Integers, Sequences, FiniteSets, TLC

VARIABLES
    \* ---- SpecCat ----
    cur,        \* the category the accessor is being applied to
    start,      \* the category the chain of applications started from
    first,      \* the category obtained after the first application
    nApplied,   \* number of applications of CartesianProducts() so far
    pairB,      \* the category start was last compared with
    pairSub,    \* start.is_subcategory(pairB)
    pairCPSub,  \* start.CartesianProducts().is_subcategory(pairB.CartesianProducts())
    chain,      \* start.CartesianProducts().all_super_categories()
    \* ---- Spec, SpecReg ----
    registry,   \* the construction registry: the descriptors created, in order
    lastDesc,   \* index in registry of the descriptor the last register/constructor call returned
    lastName,   \* the construction name of that call
    moduleLevel,\* index in registry of the module-level cartesian_product, 0 before it is resolved
    returned,   \* for each construction name, the descriptors ever handed out for it
    cache,      \* the unique-instance cache: the uniquely represented parents alive
    res,        \* what the last cartesian_product call returned or raised
    path,       \* the branch of __call__ the last call took
    generic,    \* whether the last call invoked the generic __call__
    lastArgs,   \* the argument sequence of the last call, as the caller passed it
    callerArgs, \* the caller's argument sequence as it is after the call
    called,     \* the argument sequences cartesian_product was called with so far
    repeat,     \* whether the last call repeated an earlier argument sequence
    \* ---- SpecLie, SpecSub ----
    algebras,   \* the AbelianLieAlgebra instances alive, in order of creation
    op,         \* the last operation: "none", "construct", "subalgebra", "bracket"
    lastCall,   \* the arguments of the last constructor call
    lastId,     \* index in algebras of the instance it returned, 0 when it raised
    brkLeft,    \* the last bracket: left operand
    brkRight,   \* ... right operand
    brk,        \* ... result
    nested,     \* whether the left operand was itself the result of a bracket
    receiver,   \* index of the algebra the last subalgebra() was called on, 0 if none
    \* ---- SpecTest ----
    pc,                 \* where the pytest session is: "setup", "call", "done"
    test,               \* the number of the doctest item being run
    doctest_namespace,  \* the session's doctest namespace: the names it holds
    globs,              \* the globals the running doctest sees
    fixtureRan,         \* whether add_imports ran for the current item
    outcome             \* per item: "pending", "passed" or "NameError"

catVars == <<cur, start, first, nApplied, pairB, pairSub, pairCPSub, chain>>

(***************************************************************************)
(* Categories.  A category is a base category with the number of times the *)
(* CartesianProducts construction has been put on top of it.               *)
(***************************************************************************)
BaseCategories ==
    {"Objects", "SetsWithPartialMaps", "Sets", "FiniteEnumeratedSets",
     "Magmas", "UnitalMagmas", "Semigroups", "Monoids"}

\* how many applications of the accessor a chain makes (model bound)
MaxApply == 3

Cat(b, d) == [base |-> b, depth |-> d]

NoCategory == Cat("None", 0)

\* the immediate supercategories of a base category (chain of the class docstring)
BaseSuperCategories(b) ==
    CASE b = "Monoids"              -> {"Semigroups", "UnitalMagmas"}
      [] b = "Semigroups"           -> {"Magmas"}
      [] b = "UnitalMagmas"         -> {"Magmas"}
      [] b = "Magmas"               -> {"Sets"}
      [] b = "FiniteEnumeratedSets" -> {"Sets"}
      [] b = "Sets"                 -> {"SetsWithPartialMaps"}
      [] b = "SetsWithPartialMaps"  -> {"Objects"}
      [] OTHER                      -> {}

RECURSIVE BaseAllSuperCategories(_)
BaseAllSuperCategories(b) ==
    {b} \cup UNION {BaseAllSuperCategories(s) : s \in BaseSuperCategories(b)}

\* a base category has a nested CartesianProducts class iff it is a subcategory of Sets
HasCartesianProducts(C) ==
    \/ C.depth >= 1
    \/ C.depth = 0 /\ "Sets" \in BaseAllSuperCategories(C.base)

\* the categories of the model: the base ones and their CartesianProducts()
Categories ==
    {Cat(b, 0) : b \in BaseCategories}
        \cup {Cat(b, 1) : b \in {c \in BaseCategories : HasCartesianProducts(Cat(c, 0))}}

\* mutant: the accessor of a CartesianProductsCategory wraps self once more
CartesianProducts_Nested(C) ==
    IF ~HasCartesianProducts(C) THEN NoCategory
    ELSE Cat(C.base, C.depth + 1)

\* C.CartesianProducts(): CartesianProductsCategory.CartesianProducts returns self;
\* on a base category the nested class is instantiated
CartesianProducts(C) ==
    IF ~HasCartesianProducts(C) THEN NoCategory
    ELSE IF C.depth >= 1 THEN C
    ELSE Cat(C.base, 1)

\* mutant: a constructed category forgets the constructions of the supercategories
SuperCategories_NoCovariance(C) ==
    IF C.depth = 0
    THEN {Cat(s, 0) : s \in BaseSuperCategories(C.base)}
    ELSE {Cat(C.base, C.depth - 1)}

\* C.super_categories(): for a constructed category, the base category and the
\* construction applied to each supercategory of the base that defines it
SuperCategories(C) ==
    IF C.depth = 0
    THEN {Cat(s, 0) : s \in BaseSuperCategories(C.base)}
    ELSE {Cat(C.base, C.depth - 1)}
         \cup {Cat(s, C.depth) : s \in {t \in BaseSuperCategories(C.base) :
                                            HasCartesianProducts(Cat(t, 0))}}

RECURSIVE AllSuperCategories(_)
AllSuperCategories(C) ==
    {C} \cup UNION {AllSuperCategories(S) : S \in SuperCategories(C)}

\* the subcategory relation on the categories of the model
SubcategoryPairs ==
    {p \in Categories \X Categories : p[2] \in AllSuperCategories(p[1])}

IsSubcategory(A, B) == <<A, B>> \in SubcategoryPairs

\* A.CartesianProducts().is_subcategory(B.CartesianProducts()), false when
\* one of the two does not define the construction
CPIsSubcategory(A, B) ==
    /\ HasCartesianProducts(A)
    /\ HasCartesianProducts(B)
    /\ IsSubcategory(CartesianProducts(A), CartesianProducts(B))

\* A.CartesianProducts().all_super_categories(), empty when undefined
CPChain(A) ==
    IF HasCartesianProducts(A) THEN AllSuperCategories(CartesianProducts(A)) ELSE {}

CatInit ==
    /\ cur = Cat("Sets", 0)
    /\ start = Cat("Sets", 0)
    /\ first = NoCategory
    /\ nApplied = 0
    /\ pairB = Cat("Sets", 0)
    /\ pairSub = IsSubcategory(Cat("Sets", 0), Cat("Sets", 0))
    /\ pairCPSub = CPIsSubcategory(Cat("Sets", 0), Cat("Sets", 0))
    /\ chain = CPChain(Cat("Sets", 0))

\* take a category C to work with
PickCategory(C) ==
    /\ cur' = C
    /\ start' = C
    /\ first' = NoCategory
    /\ nApplied' = 0
    /\ pairB' = C
    /\ pairSub' = IsSubcategory(C, C)
    /\ pairCPSub' = CPIsSubcategory(C, C)
    /\ chain' = CPChain(C)

\* cur = cur.CartesianProducts()
ApplyCartesianProducts ==
    /\ nApplied < MaxApply
    /\ HasCartesianProducts(cur)
    /\ cur' = CartesianProducts(cur)
    /\ first' = IF nApplied = 0 THEN CartesianProducts(cur) ELSE first
    /\ nApplied' = nApplied + 1
    /\ UNCHANGED <<start, pairB, pairSub, pairCPSub, chain>>

\* start.is_subcategory(B) and
\* start.CartesianProducts().is_subcategory(B.CartesianProducts())
CompareCategories(B) ==
    /\ pairB' = B
    /\ pairSub' = IsSubcategory(start, B)
    /\ pairCPSub' = CPIsSubcategory(start, B)
    /\ UNCHANGED <<cur, start, first, nApplied, chain>>

CatNext ==
    \/ \E C \in Categories : PickCategory(C)
    \/ ApplyCartesianProducts
    \/ \E B \in Categories : CompareCategories(B)

(***************************************************************************)
(* Objects: plain Python values, parents (category-aware sets) and what a  *)
(* call raises.  Every value is a record of the same shape.                *)
(***************************************************************************)
cpVars == <<registry, lastDesc, lastName, moduleLevel, returned, cache, res, path,
            generic, lastArgs, callerArgs, called, repeat>>

\* longest argument sequence passed to cartesian_product (model bound)
MaxArgs == 2

\* number of distinct argument sequences a run calls cartesian_product with (model bound)
MaxCalls == 2

native_python_containers == {"tuple", "list", "set", "frozenset"}

Obj(k, t, it, c, f) ==
    [kind |-> k, type |-> t, items |-> it, category |-> c, factors |-> f]

NoObject == Obj("None", "None", <<>>, NoCategory, <<>>)

\* the call raised a type error: nothing is returned
TypeErrorRaised == Obj("TypeError", "None", <<>>, NoCategory, <<>>)

\* the generic construction has no category to join for an empty sequence
UndefinedRaised == Obj("Undefined", "None", <<>>, NoCategory, <<>>)

\* a plain Python value of exact type t iterating over items in this order
PlainValue(t, items) == Obj("plain", t, items, NoCategory, <<>>)

RECURSIVE SortedSeq(_)
SortedSeq(S) ==
    IF S = {} THEN <<>>
    ELSE LET m == CHOOSE x \in S : \A y \in S : x <= y
         IN <<m>> \o SortedSeq(S \ {m})

SeqRange(q) == {q[i] : i \in 1..Len(q)}

\* FiniteEnumeratedSet(items): keeps the order of items
FiniteEnumeratedSet(items) ==
    Obj("parent", "FiniteEnumeratedSet", items, Cat("FiniteEnumeratedSets", 0), <<>>)

\* Set(items): an unordered finite set, in the category of sets
SetObject(items) ==
    Obj("parent", "Set", SortedSeq(SeqRange(items)), Cat("Sets", 0), <<>>)

\* a finite monoid with elements 0 and 1
FiniteMonoid == Obj("parent", "Monoid", <<0, 1>>, Cat("Monoids", 0), <<>>)

\* CartesianProduct(factors, category)
CartesianProduct(factors, category) ==
    Obj("parent", "CartesianProduct", <<>>, category, factors)

RECURSIVE ProductOfLengths(_)
ProductOfLengths(fs) ==
    IF fs = <<>> THEN 1 ELSE Len(Head(fs).items) * ProductOfLengths(Tail(fs))

\* C.cardinality() of a cartesian product C
CPCardinality(C) == ProductOfLengths(C.factors)

\* C.an_element() of a cartesian product C of non-empty factors
CPAnElement(C) == [i \in 1..Len(C.factors) |-> C.factors[i].items[1]]

\* the values the model passes as arguments, by name
ArgNames == {"list", "set", "monoid", "int"}

ValueOf(n) ==
    CASE n = "list"   -> PlainValue("list", <<1, 0>>)
      [] n = "set"    -> PlainValue("set", <<0, 1>>)
      [] n = "monoid" -> FiniteMonoid
      [] n = "emptylist" -> PlainValue("list", <<>>)
      [] n = "sublist" -> PlainValue("MyList", <<1, 0>>)
      [] OTHER        -> Obj("other", "int", <<>>, NoCategory, <<>>)

\* the argument sequences of the model, as sequences of names
ArgSeqs == UNION {[1..n -> ArgNames] : n \in 0..MaxArgs}

\* the values passed where the branch taken is looked at: a list, the empty
\* list, an instance of a class MyList(list), a monoid
PathArgNames == {"list", "emptylist", "sublist", "monoid"}

PathArgSeqs == UNION {[1..n -> PathArgNames] : n \in 0..MaxArgs}

\* the sequence of values a sequence of names stands for
Values(ns) == [i \in 1..Len(ns) |-> ValueOf(ns[i])]

HasCategory(a) == a.kind = "parent"

\* Sets()(a, enumerated_set=flag): an object of Sets() is returned as it is, a
\* tuple or list becomes a finite enumerated set when flag is set, any other
\* plain container a Set, anything else is a type error
Coerce(a, enumerated_set) ==
    IF HasCategory(a) THEN a
    ELSE IF enumerated_set /\ a.type \in {"tuple", "list"}
         THEN FiniteEnumeratedSet(a.items)
    ELSE IF a.type \in native_python_containers THEN SetObject(a.items)
    ELSE TypeErrorRaised

\* Category.meet: the most specific common supercategory
Meet(cats) ==
    LET
        common == {C \in Categories : \A c \in cats : IsSubcategory(c, C)}
    IN CHOOSE m \in common : \A C \in common : IsSubcategory(m, C)

\* what CovariantFunctorialConstruction.__call__(args) returns or raises
GenericResult(args) ==
    IF args = <<>> THEN UndefinedRaised
    ELSE IF \E i \in 1..Len(args) : ~HasCategory(args[i]) THEN TypeErrorRaised
    ELSE LET m == Meet({args[i].category : i \in 1..Len(args)})
         IN IF ~HasCartesianProducts(m) THEN TypeErrorRaised
            ELSE CartesianProduct(args, CartesianProducts(m))

Raised(r) == r.kind \in {"TypeError", "Undefined"}

\* the outcome of a call: what it returns or raises, the uniquely represented
\* parents it constructs (looked up in the cache, stored there when new), the
\* branch taken, whether the generic __call__ ran, and the caller's sequence
\* as it is afterwards
Outcome(r, m, p, g, ca) ==
    [res |-> r, made |-> m, path |-> p, generic |-> g, callerArgs |-> ca]

\* CovariantFunctorialConstruction.__call__(args), reached on branch p after
\* the parents of made were constructed; ca is the caller's sequence
GenericCall(args, made, p, ca) ==
    LET r == GenericResult(args)
    IN Outcome(r, IF Raised(r) THEN made ELSE made \cup {r}, p, TRUE, ca)

MinOf(S) == CHOOSE x \in S : \A y \in S : x <= y

\* the coercion branch: args = [S(a, enumerated_set=flag) for a in args]
CoercionBranch(args, flag) ==
    LET coerced == [i \in 1..Len(args) |-> Coerce(args[i], flag)]
        bad == {i \in 1..Len(args) : coerced[i].kind = "TypeError"}
        upto == IF bad = {} THEN Len(args) ELSE MinOf(bad) - 1
        made == {coerced[i] : i \in {j \in 1..upto :
                                        coerced[j].type = "FiniteEnumeratedSet"}}
    IN IF bad # {}
       THEN Outcome(TypeErrorRaised, made, "coerce", FALSE, args)
       ELSE GenericCall(coerced, made, "coerce", args)

\* the empty branch: CartesianProduct((), Sets().CartesianProducts())
EmptyBranch(args) ==
    LET r == CartesianProduct(<<>>, CartesianProducts(Cat("Sets", 0)))
    IN Outcome(r, {r}, "empty", FALSE, args)

\* the classes an exact type inherits from, itself included
BaseTypes(t) == IF t = "MyList" THEN {"MyList", "list"} ELSE {t}

\* mutant: the test is isinstance(arg, ...) instead of type(arg) in ...
IsNative_Isinstance(a) == BaseTypes(a.type) \cap native_python_containers # {}

\* type(arg) in native_python_containers
IsNative(a) == a.type \in native_python_containers

\* mutant: the branch for the empty sequence is missing
CartesianProductCall_NoEmptyBranch(args) ==
    IF \E i \in 1..Len(args) : IsNative(args[i])
    THEN CoercionBranch(args, TRUE)
    ELSE GenericCall(args, {}, "generic", args)

\* mutant: the coercion is asked for plain sets, not for enumerated ones
CartesianProductCall_NoEnumeratedFlag(args) ==
    IF \E i \in 1..Len(args) : IsNative(args[i])
    THEN CoercionBranch(args, FALSE)
    ELSE IF args = <<>>
    THEN EmptyBranch(args)
    ELSE GenericCall(args, {}, "generic", args)

Coercible(a) == HasCategory(a) \/ IsNative(a)

\* mutant: the coercion branch leaves out the arguments it cannot coerce
CartesianProductCall_SkipsUncoercible(args) ==
    IF \E i \in 1..Len(args) : IsNative(args[i])
    THEN CoercionBranch(SelectSeq(args, Coercible), TRUE)
    ELSE IF args = <<>>
    THEN EmptyBranch(args)
    ELSE GenericCall(args, {}, "generic", args)

\* mutant: the coercion branch writes the coerced values into the caller's list
CartesianProductCall_InPlace(args) ==
    IF \E i \in 1..Len(args) : IsNative(args[i])
    THEN LET o == CoercionBranch(args, TRUE)
         IN Outcome(o.res, o.made, o.path, o.generic,
                    [i \in 1..Len(args) |-> Coerce(args[i], TRUE)])
    ELSE IF args = <<>>
    THEN EmptyBranch(args)
    ELSE GenericCall(args, {}, "generic", args)

\* CartesianProductFunctor.__call__(args)
CartesianProductCall(args) ==
    IF \E i \in 1..Len(args) : IsNative(args[i])
    THEN CoercionBranch(args, TRUE)
    ELSE IF args = <<>>
    THEN EmptyBranch(args)
    ELSE GenericCall(args, {}, "generic", args)

\* the outcome of __call__ for each argument sequence of the model, as a
\* table computed once
CallOutcomes ==
    CHOOSE f \in {[ns \in ArgSeqs \cup PathArgSeqs |->
                       CartesianProductCall(Values(ns))]} : f = f

OutcomeOf(ns) == CallOutcomes[ns]

(***************************************************************************)
(* The construction registry.  A descriptor is created once per name.      *)
(***************************************************************************)
_functor_name == "cartesian_product"

_functor_category == "CartesianProducts"

ConstructionNames == {"cartesian_product", "tensor", "subquotient", "dual"}

FunctorCategoryOf(name) ==
    CASE name = _functor_name  -> _functor_category
      [] name = "tensor"       -> "TensorProducts"
      [] name = "subquotient"  -> "Subquotients"
      [] OTHER                 -> "DualObjects"

\* CartesianProductFunctor.__init__: the functor from Sets() to Sets()
FunctorInit(name) ==
    [name |-> name, functor_category |-> FunctorCategoryOf(name),
     domain |-> Cat("Sets", 0), codomain |-> Cat("Sets", 0)]

Registered(reg, name) == {i \in 1..Len(reg) : reg[i].name = name}

\* mutant: every call creates and stores a descriptor
Register_AlwaysCreates(reg, name) ==
    [registry |-> Append(reg, FunctorInit(name)), id |-> Len(reg) + 1]

\* register(name): the stored descriptor if there is one, else a new one
Register(reg, name) ==
    IF Registered(reg, name) # {}
    THEN [registry |-> reg, id |-> MinOf(Registered(reg, name))]
    ELSE [registry |-> Append(reg, FunctorInit(name)), id |-> Len(reg) + 1]

CPInit ==
    /\ registry = <<>>
    /\ lastDesc = 0
    /\ lastName = "None"
    /\ moduleLevel = 0
    /\ returned = [n \in ConstructionNames |-> {}]
    /\ cache = {}
    /\ res = NoObject
    /\ path = "none"
    /\ generic = FALSE
    /\ lastArgs = <<>>
    /\ callerArgs = <<>>
    /\ called = {}
    /\ repeat = FALSE

\* cartesian_product(args): the lazily imported module-level name is resolved,
\* then __call__ runs
CallCartesianProduct(args) ==
    /\ args \in called \/ Cardinality(called) < MaxCalls
    /\ LET reg == Register(registry, _functor_name)
           c == OutcomeOf(args)
       IN /\ registry' = reg.registry
          /\ moduleLevel' = reg.id
          /\ returned' = [returned EXCEPT ![_functor_name] = @ \cup {reg.id}]
          /\ cache' = cache \cup c.made
          /\ res' = c.res
          /\ path' = c.path
          /\ generic' = c.generic
          /\ callerArgs' = c.callerArgs
    /\ lastArgs' = args
    /\ called' = called \cup {args}
    /\ repeat' = (args \in called)
    /\ UNCHANGED <<lastDesc, lastName>>

CPNext == \E args \in ArgSeqs : CallCartesianProduct(args)

PathNext == \E args \in PathArgSeqs : CallCartesianProduct(args)

\* register(name)
RegisterConstruction(name) ==
    /\ LET reg == Register(registry, name)
       IN /\ registry' = reg.registry
          /\ lastDesc' = reg.id
          /\ returned' = [returned EXCEPT ![name] = @ \cup {reg.id}]
    /\ lastName' = name
    /\ UNCHANGED <<moduleLevel, cache, res, path, generic, lastArgs, callerArgs,
                   called, repeat>>

\* CartesianProductFunctor()
ConstructFunctor ==
    /\ LET reg == Register(registry, _functor_name)
       IN /\ registry' = reg.registry
          /\ lastDesc' = reg.id
          /\ returned' = [returned EXCEPT ![_functor_name] = @ \cup {reg.id}]
    /\ lastName' = _functor_name
    /\ UNCHANGED <<moduleLevel, cache, res, path, generic, lastArgs, callerArgs,
                   called, repeat>>

\* first use of the lazily imported name: sets_cat binds cartesian_product
ResolveModuleLevel ==
    /\ moduleLevel = 0
    /\ LET reg == Register(registry, _functor_name)
       IN /\ registry' = reg.registry
          /\ moduleLevel' = reg.id
          /\ returned' = [returned EXCEPT ![_functor_name] = @ \cup {reg.id}]
    /\ UNCHANGED <<lastDesc, lastName, cache, res, path, generic, lastArgs, callerArgs,
                   called, repeat>>

RegNext ==
    \/ \E name \in ConstructionNames : RegisterConstruction(name)
    \/ ConstructFunctor
    \/ ResolveModuleLevel

(***************************************************************************)
(* AbelianLieAlgebra.  A module is a coordinate subspace of R^degree; an   *)
(* element is a parent with a vector of the parent's module.               *)
(***************************************************************************)
lieVars == <<algebras, op, lastCall, lastId, brkLeft, brkRight, brk, nested, receiver>>

\* largest rank passed to the constructor (model bound)
MaxRank == 1

\* number of instances a run of SpecLie creates (model bound)
MaxInstances == 2

\* dimension of the example algebra subalgebras are taken of (model bound)
MaxDim == 2

\* number of instances a run of SpecSub creates (model bound)
MaxAlgebras == 3

Rings == {"QQ", "ZZ"}

\* None as the argument n
NoneN == -1

Module(R, d, S) == [ring |-> R, degree |-> d, support |-> S]

\* None as the argument M
NoModule == Module("None", 0, {})

\* FreeModule(R, n)
FreeModule(R, n) == Module(R, n, 1..n)

\* M.change_ring(R)
change_ring(M, R) == [M EXCEPT !.ring = R]

CallArgs(R, n, M, a) == [R |-> R, n |-> n, M |-> M, ambient |-> a]

NoCall == CallArgs("None", NoneN, NoModule, 0)

\* mutant: n is handed on to __classcall__ as it was given
ClassCallPrivate_KeepsN(R, n, M, ambient) ==
    CallArgs(R, n,
             IF M = NoModule THEN FreeModule(R, n) ELSE change_ring(M, R),
             ambient)

\* AbelianLieAlgebra.__classcall_private__: the arguments handed to __classcall__
ClassCallPrivate(R, n, M, ambient) ==
    CallArgs(R, NoneN,
             IF M = NoModule THEN FreeModule(R, n) ELSE change_ring(M, R),
             ambient)

\* AbelianLieAlgebra.__init__ of the instance at index self
LieInit(key, self) ==
    [key |-> key,
     _M |-> key.M,
     _ambient |-> IF key.ambient = 0 THEN self ELSE key.ambient,
     base |-> key.R,
     subobject |-> key.ambient # 0]

Cached(algs, key) == {i \in 1..Len(algs) : algs[i].key = key}

\* UniqueRepresentation.__classcall__: the cached instance for these arguments,
\* else a new one
ClassCall(algs, key) ==
    IF Cached(algs, key) # {}
    THEN [algebras |-> algs, id |-> MinOf(Cached(algs, key))]
    ELSE [algebras |-> Append(algs, LieInit(key, Len(algs) + 1)), id |-> Len(algs) + 1]

\* FreeModule(R, None) raises
ConstructorRaises(R, n, M) == M = NoModule /\ n = NoneN

\* AbelianLieAlgebra(R, n, M, ambient)
NewAbelianLieAlgebra(algs, R, n, M, ambient) ==
    IF ConstructorRaises(R, n, M)
    THEN [algebras |-> algs, id |-> 0]
    ELSE ClassCall(algs, ClassCallPrivate(R, n, M, ambient))

Element(p, v) == [parent |-> p, value |-> v]

NoElement == Element(0, <<>>)

ZeroVector(M) == [i \in 1..M.degree |-> 0]

UnitVector(M, k) == [i \in 1..M.degree |-> IF i = k THEN 1 ELSE 0]

\* the vectors of M the model works with: zero and the basis
VectorsOf(M) == {ZeroVector(M)} \cup {UnitVector(M, k) : k \in M.support}

ElementsOf(algs, id) == {Element(id, v) : v \in VectorsOf(algs[id]._M)}

\* M.subspace(vs) for unit and zero vectors vs of M
Subspace(M, vs) ==
    [M EXCEPT !.support = {i \in 1..M.degree : \E v \in vs : v[i] # 0}]

\* L.zero()
Zero(algs, id) == Element(id, ZeroVector(algs[id]._M))

\* mutant: the bracket is the zero of the ambient algebra
Bracket_InAmbient(algs, x, y) == Zero(algs, algs[x.parent]._ambient)

\* x._bracket_(y): self.parent().zero()
Bracket(algs, x, y) == Zero(algs, x.parent)

LieInit0 ==
    /\ algebras = <<>>
    /\ op = "none"
    /\ lastCall = NoCall
    /\ lastId = 0
    /\ brkLeft = NoElement
    /\ brkRight = NoElement
    /\ brk = NoElement
    /\ nested = FALSE
    /\ receiver = 0

ModuleArgs == {NoModule} \cup {FreeModule(R, k) : R \in Rings, k \in 0..MaxRank}

\* AbelianLieAlgebra(R, n, M)
Construct(R, n, M) ==
    LET r == NewAbelianLieAlgebra(algebras, R, n, M, 0)
    IN /\ Len(r.algebras) <= MaxInstances
       /\ algebras' = r.algebras
       /\ op' = "construct"
       /\ lastCall' = CallArgs(R, n, M, 0)
       /\ lastId' = r.id
       /\ brkLeft' = NoElement
       /\ brkRight' = NoElement
       /\ brk' = NoElement
       /\ nested' = FALSE
       /\ receiver' = 0

LieNext ==
    \E R \in Rings, n \in {NoneN} \cup 0..MaxRank, M \in ModuleArgs :
        Construct(R, n, M)

\* LieAlgebras(QQ).FiniteDimensional().WithBasis().example(n)
ConstructExample(n) ==
    /\ algebras = <<>>
    /\ LET r == NewAbelianLieAlgebra(algebras, "QQ", n, NoModule, 0)
       IN /\ algebras' = r.algebras
          /\ lastId' = r.id
    /\ op' = "construct"
    /\ lastCall' = CallArgs("QQ", n, NoModule, 0)
    /\ brkLeft' = NoElement
    /\ brkRight' = NoElement
    /\ brk' = NoElement
    /\ nested' = FALSE
    /\ receiver' = 0

\* mutant: the subalgebra is declared a subalgebra of the algebra it is taken of
Subalgebra_OfReceiver(id, gens) ==
    LET self == algebras[id]
        N == Subspace(self._M, {g.value : g \in gens})
        r == NewAbelianLieAlgebra(algebras, self.base, NoneN, N, id)
    IN /\ Len(r.algebras) <= MaxAlgebras
       /\ algebras' = r.algebras
       /\ op' = "subalgebra"
       /\ lastCall' = CallArgs(self.base, NoneN, N, id)
       /\ lastId' = r.id
       /\ brkLeft' = NoElement
       /\ brkRight' = NoElement
       /\ brk' = NoElement
       /\ nested' = FALSE
       /\ receiver' = id

\* algebras[id].subalgebra(gens)
Subalgebra(id, gens) ==
    LET self == algebras[id]
        N == Subspace(self._M, {g.value : g \in gens})
        r == NewAbelianLieAlgebra(algebras, self.base, NoneN, N, self._ambient)
    IN /\ Len(r.algebras) <= MaxAlgebras
       /\ algebras' = r.algebras
       /\ op' = "subalgebra"
       /\ lastCall' = CallArgs(self.base, NoneN, N, self._ambient)
       /\ lastId' = r.id
       /\ brkLeft' = NoElement
       /\ brkRight' = NoElement
       /\ brk' = NoElement
       /\ nested' = FALSE
       /\ receiver' = id

\* a.bracket(b) for elements a and b of one algebra
TakeBracket(a, b) ==
    /\ op' = "bracket"
    /\ brkLeft' = a
    /\ brkRight' = b
    /\ brk' = Bracket(algebras, a, b)
    /\ nested' = FALSE
    /\ lastCall' = NoCall
    /\ lastId' = 0
    /\ UNCHANGED <<algebras, receiver>>

\* brk.bracket(c): the bracket of the last result with an element c of its parent
TakeBracketAgain(c) ==
    /\ op = "bracket"
    /\ c.parent = brk.parent
    /\ op' = "bracket"
    /\ brkLeft' = brk
    /\ brkRight' = c
    /\ brk' = Bracket(algebras, brk, c)
    /\ nested' = TRUE
    /\ lastCall' = NoCall
    /\ lastId' = 0
    /\ UNCHANGED <<algebras, receiver>>

SubNext ==
    \/ \E n \in 0..MaxDim : ConstructExample(n)
    \/ \E id \in 1..Len(algebras) :
         \E gens \in SUBSET ElementsOf(algebras, id) : Subalgebra(id, gens)
    \/ \E id \in 1..Len(algebras) :
         \E a \in ElementsOf(algebras, id), b \in ElementsOf(algebras, id) :
            TakeBracket(a, b)
    \/ \E id \in 1..Len(algebras) :
         \E c \in ElementsOf(algebras, id) : TakeBracketAgain(c)


(***************************************************************************)
(* The pytest session: every doctest item is set up (the autouse fixture   *)
(* add_imports runs), runs its examples with a copy of the doctest         *)
(* namespace as its globals, and is torn down.                             *)
(***************************************************************************)
testVars == <<pc, test, doctest_namespace, globs, fixtureRan, outcome>>

\* number of doctest items of a session (model bound)
MaxTests == 3

\* names of sage.all the examples use
PublicNames == {"cartesian_product", "FiniteEnumeratedSet", "Monoids", "ZZ", "QQ"}

\* the names the examples bind
BoundNames == {"A", "B", "C"}

\* the names an example may refer to
UsedNames == PublicNames \cup {"sage"} \cup BoundNames

\* locals() of add_imports after `import sage.all`: the parameter and the
\* package the import statement binds
FixtureLocals == {"doctest_namespace", "sage"}

\* add_imports: doctest_namespace.update(**locals())
add_imports(ns) == ns \cup FixtureLocals

TestInit ==
    /\ pc = "setup"
    /\ test = 1
    /\ doctest_namespace = {}
    /\ globs = {}
    /\ fixtureRan = FALSE
    /\ outcome = [t \in 1..MaxTests |-> "pending"]

\* the autouse fixture runs, then the item gets its globals
SetupItem ==
    /\ pc = "setup"
    /\ doctest_namespace' = add_imports(doctest_namespace)
    /\ globs' = add_imports(doctest_namespace)
    /\ fixtureRan' = TRUE
    /\ pc' = "call"
    /\ UNCHANGED <<test, outcome>>

\* an example of the item evaluates the name u
UseName(u) ==
    /\ pc = "call"
    /\ outcome[test] # "NameError"
    /\ outcome' = [outcome EXCEPT ![test] = IF u \in globs THEN "passed" ELSE "NameError"]
    /\ UNCHANGED <<pc, test, doctest_namespace, globs, fixtureRan>>

\* an example of the item binds v to an expression on the name u
BindName(v, u) ==
    /\ pc = "call"
    /\ outcome[test] # "NameError"
    /\ outcome' = [outcome EXCEPT ![test] = IF u \in globs THEN "passed" ELSE "NameError"]
    /\ globs' = IF u \in globs THEN globs \cup {v} ELSE globs
    /\ UNCHANGED <<pc, test, doctest_namespace, fixtureRan>>

\* the item is finished; the next one, if any, is set up
TeardownItem ==
    /\ pc = "call"
    /\ globs' = {}
    /\ fixtureRan' = FALSE
    /\ IF test < MaxTests
       THEN pc' = "setup" /\ test' = test + 1
       ELSE pc' = "done" /\ test' = test
    /\ UNCHANGED <<doctest_namespace, outcome>>

TestNext ==
    \/ SetupItem
    \/ \E u \in UsedNames : UseName(u)
    \/ \E v \in BoundNames, u \in UsedNames : BindName(v, u)
    \/ TeardownItem


vars == <<catVars, cpVars, lieVars, testVars>>

AllInit == CatInit /\ CPInit /\ LieInit0 /\ TestInit

SpecCat == AllInit /\ [][CatNext /\ UNCHANGED <<cpVars, lieVars, testVars>>]_vars

Spec == AllInit /\ [][CPNext /\ UNCHANGED <<catVars, lieVars, testVars>>]_vars

SpecPath == AllInit /\ [][PathNext /\ UNCHANGED <<catVars, lieVars, testVars>>]_vars

SpecReg == AllInit /\ [][RegNext /\ UNCHANGED <<catVars, lieVars, testVars>>]_vars

SpecLie == AllInit /\ [][LieNext /\ UNCHANGED <<catVars, cpVars, testVars>>]_vars

SpecSub == AllInit /\ [][SubNext /\ UNCHANGED <<catVars, cpVars, testVars>>]_vars

SpecTest == AllInit /\ [][TestNext /\ UNCHANGED <<catVars, cpVars, lieVars>>]_vars

(***************************************************************************)
(* Properties of the categories (SpecCat).                                 *)
(***************************************************************************)

\* C4: after one or more applications of CartesianProducts() the category is
\* the one obtained after the first application, a CartesianProducts category
\* whose own accessor returns it.
C4_ConstructionIdempotent ==
    nApplied >= 1 =>
        /\ cur = first
        /\ cur.depth = 1
        /\ CartesianProducts(cur) = cur

C4_Witness == nApplied >= 2 /\ start.depth = 0 /\ cur = first

\* C5: when start is a subcategory of pairB and both define the construction,
\* start.CartesianProducts() is a subcategory of pairB.CartesianProducts(); the
\* chain of the cartesian products of monoids holds those of semigroups,
\* magmas and sets.
C5_Covariant ==
    /\ (HasCartesianProducts(start) /\ HasCartesianProducts(pairB) /\ pairSub)
            => pairCPSub
    /\ start = Cat("Monoids", 0)
            => {Cat("Semigroups", 1), Cat("Magmas", 1), Cat("Sets", 1)} \subseteq chain

C5_Witness ==
    /\ start = Cat("Monoids", 0)
    /\ pairB = Cat("Magmas", 0)
    /\ pairSub
    /\ pairCPSub

(***************************************************************************)
(* Properties of cartesian_product(args) (Spec).                           *)
(***************************************************************************)
Malformed(a) == ~HasCategory(a) /\ ~IsNative(a)

LastValues == Values(lastArgs)

\* C1: whatever was called before, a call with the empty sequence returns the
\* cartesian product of no factors in the category Sets().CartesianProducts(),
\* of cardinality 1 with an_element () and without the generic __call__.
C1_EmptyProduct ==
    (path # "none" /\ lastArgs = <<>>) =>
        /\ res = Obj("parent", "CartesianProduct", <<>>, Cat("Sets", 1), <<>>)
        /\ res.factors = <<>>
        /\ CPCardinality(res) = 1
        /\ CPAnElement(res) = <<>>
        /\ path = "empty"
        /\ ~generic

C1_Witness ==
    /\ path = "empty"
    /\ lastArgs = <<>>
    /\ \E a \in called : a # <<>>

\* every argument turned into a finite enumerated set, in iteration order
AsFiniteEnumerated(a) ==
    IF Malformed(a) THEN TypeErrorRaised ELSE FiniteEnumeratedSet(a.items)

\* C2 as stated: with a plain container among the arguments the call returns
\* what the generic path returns for the arguments all turned into finite
\* enumerated sets.
C2_AllFiniteEnumerated ==
    (path # "none" /\ \E i \in 1..Len(lastArgs) : IsNative(LastValues[i])) =>
        res = GenericResult([i \in 1..Len(lastArgs) |-> AsFiniteEnumerated(LastValues[i])])

\* a tuple or list as a finite enumerated set in iteration order, a set or
\* frozenset as a plain finite set, a parent as it is
AsCoerced(a) ==
    IF Malformed(a) THEN TypeErrorRaised
    ELSE IF HasCategory(a) THEN a
    ELSE IF a.type \in {"tuple", "list"}
         THEN Obj("parent", "FiniteEnumeratedSet", a.items,
                  Cat("FiniteEnumeratedSets", 0), <<>>)
    ELSE Obj("parent", "Set", SortedSeq(SeqRange(a.items)), Cat("Sets", 0), <<>>)

\* C2 amended: with a plain container among the arguments the call returns
\* what the generic path returns for the arguments with each tuple or list
\* turned into a finite enumerated set in iteration order, each set or
\* frozenset into a plain finite set, and each parent left as it is.
C2_CoercedThenGeneric ==
    (path # "none" /\ \E i \in 1..Len(lastArgs) : IsNative(LastValues[i])) =>
        /\ path = "coerce"
        /\ res = GenericResult([i \in 1..Len(lastArgs) |-> AsCoerced(LastValues[i])])

C2_Witness ==
    /\ path = "coerce"
    /\ res.kind = "parent"
    /\ \E i \in 1..Len(lastArgs) : lastArgs[i] = "list"
    /\ \E i \in 1..Len(lastArgs) : lastArgs[i] = "monoid"
    /\ res.category = Cat("Sets", 1)

\* C6: a call with an argument that has no category() and is no plain
\* container raises a type error and returns nothing, also next to a plain
\* container.
C6_MalformedRaises ==
    (path # "none" /\ \E i \in 1..Len(lastArgs) : Malformed(LastValues[i])) =>
        /\ res.kind = "TypeError"
        /\ res = TypeErrorRaised

C6_Witness ==
    /\ path = "coerce"
    /\ res.kind = "TypeError"
    /\ \E i \in 1..Len(lastArgs) : lastArgs[i] = "int"
    /\ \E i \in 1..Len(lastArgs) : lastArgs[i] = "list"

UniqueParent(o) ==
    o.kind = "parent" /\ o.type \in {"FiniteEnumeratedSet", "CartesianProduct"}

\* C8: a call leaves the caller's sequence and its values as they were, takes
\* nothing out of the registry or the cache, adds to the registry only the
\* descriptor when there was none and to the cache only parents it has
\* constructed, and changes neither when the arguments repeat an earlier call.
C8_CallFrame ==
    [][ /\ callerArgs' = Values(lastArgs')
        /\ cache \subseteq cache'
        /\ \A o \in cache' \ cache : UniqueParent(o)
        /\ Len(registry') >= Len(registry)
        /\ SubSeq(registry', 1, Len(registry)) = registry
        /\ registry' # registry => Registered(registry, _functor_name) = {}
        /\ lastArgs' \in called => (cache' = cache /\ registry' = registry)
      ]_cpVars

C8_Witness ==
    /\ repeat
    /\ path = "coerce"
    /\ cache # {}
    /\ Len(registry) = 1

(***************************************************************************)
(* The branch a call takes (SpecPath).                                     *)
(***************************************************************************)

SomeExactlyNative(vals) ==
    \E i \in 1..Len(vals) : vals[i].type \in {"tuple", "list", "set", "frozenset"}

\* C12: a call takes exactly one branch: the coercion branch iff the exact type
\* of some argument is tuple, list, set or frozenset (an instance of a subclass
\* does not count, an empty container does); else the empty branch iff there
\* are no arguments; else the generic construction, with the arguments as
\* they were passed.
C12_PathOrder ==
    path # "none" =>
        /\ path \in {"coerce", "empty", "generic"}
        /\ path = "coerce" <=> SomeExactlyNative(LastValues)
        /\ path = "empty" <=> (~SomeExactlyNative(LastValues) /\ LastValues = <<>>)
        /\ path = "generic" <=> (~SomeExactlyNative(LastValues) /\ LastValues # <<>>)
        /\ path = "generic" => generic /\ res = GenericResult(LastValues)
        /\ path = "empty" => ~generic

\* cartesian_product([[]]) after a call whose only plain argument is an
\* instance of a subclass of list took the generic branch
C12_Witness ==
    /\ lastArgs = <<"emptylist">>
    /\ path = "coerce"
    /\ res # CartesianProduct(<<>>, CartesianProducts(Cat("Sets", 0)))
    /\ <<"sublist", "monoid">> \in called

(***************************************************************************)
(* Properties of the registry (SpecReg).                                   *)
(***************************************************************************)

\* C7: no two descriptors of the registry have the same name, every name was
\* always handed the same descriptor, and the descriptor handed out for
\* cartesian_product is the module-level one.
C7_OneDescriptorPerName ==
    /\ \A i, j \in 1..Len(registry) :
            registry[i].name = registry[j].name => i = j
    /\ \A n \in ConstructionNames : Cardinality(returned[n]) <= 1
    /\ lastDesc # 0 => registry[lastDesc].name = lastName
    /\ (lastName = _functor_name /\ moduleLevel # 0) => lastDesc = moduleLevel

C7_Witness ==
    /\ lastName = _functor_name
    /\ moduleLevel # 0
    /\ lastDesc = moduleLevel
    /\ Len(registry) >= 2
    /\ lastDesc < Len(registry)

(***************************************************************************)
(* Properties of AbelianLieAlgebra (SpecLie, SpecSub).                     *)
(***************************************************************************)

\* the module of the normalized arguments: the free module over R of the rank
\* given by n, or by M when M is given
ExpectedRank(c) == IF c.M = NoModule THEN c.n ELSE c.M.degree

ExpectedKey(c) ==
    [R |-> c.R,
     n |-> NoneN,
     M |-> [ring |-> c.R, degree |-> ExpectedRank(c), support |-> 1..ExpectedRank(c)],
     ambient |-> c.ambient]

\* C3: the instances alive have pairwise different normalized arguments, a
\* call returns the instance of its normalized arguments (so (R, n=k),
\* (R, M=FreeModule(R,k)) and (R, k, FreeModule(R,k)) return one instance),
\* instances keep their identity, and two calls in a row return the same
\* instance exactly when their normalized arguments are equal.
C3_UniqueInstances ==
    /\ [](/\ \A i, j \in 1..Len(algebras) :
                algebras[i].key = algebras[j].key => i = j
          /\ lastId # 0 => algebras[lastId].key = ExpectedKey(lastCall))
    /\ [][ /\ \A i \in 1..Len(algebras) : algebras'[i] = algebras[i]
           /\ (lastId # 0 /\ lastId' # 0) =>
                ((ExpectedKey(lastCall') = ExpectedKey(lastCall)) <=> (lastId' = lastId))
         ]_lieVars

C3_Witness ==
    /\ lastId # 0
    /\ lastId < Len(algebras)
    /\ lastCall.n = NoneN
    /\ lastCall.M = FreeModule(lastCall.R, 1)

\* C10: the bracket of two elements of an algebra is the zero vector in the
\* parent of the left operand, also when the left operand is a bracket.
C10_BracketIsZero ==
    op = "bracket" =>
        /\ brk.parent = brkLeft.parent
        /\ Len(brk.value) = algebras[brkLeft.parent]._M.degree
        /\ \A i \in 1..Len(brk.value) : brk.value[i] = 0

C10_Witness ==
    /\ op = "bracket"
    /\ nested
    /\ algebras[brk.parent].subobject
    /\ \E i \in 1..Len(brkRight.value) : brkRight.value[i] # 0

\* L.ambient()
Ambient(algs, id) == algs[id]._ambient

\* C11: a top-level algebra is its own ambient; the algebra subalgebra() returns
\* has the ambient of the algebra it was called on, which is the top-level
\* algebra and never an intermediate subalgebra; ambient() of an ambient is that
\* ambient; an algebra is in Subobjects exactly when it was constructed with an
\* ambient.
C11_AmbientIsTopLevel ==
    /\ \A i \in 1..Len(algebras) :
          /\ algebras[i].key.ambient = 0 => Ambient(algebras, i) = i
          /\ Ambient(algebras, i) \in 1..Len(algebras)
          /\ algebras[Ambient(algebras, i)].key.ambient = 0
          /\ Ambient(algebras, Ambient(algebras, i)) = Ambient(algebras, i)
          /\ algebras[i].subobject <=> algebras[i].key.ambient # 0
    /\ op = "subalgebra" =>
          /\ lastId \in 1..Len(algebras)
          /\ Ambient(algebras, lastId) = Ambient(algebras, receiver)
          /\ algebras[receiver].subobject => Ambient(algebras, lastId) # receiver
          /\ algebras[lastId].subobject

\* a subalgebra of a subalgebra, different from both algebras above it
C11_Witness ==
    /\ op = "subalgebra"
    /\ algebras[receiver].subobject
    /\ lastId # receiver
    /\ lastId # Ambient(algebras, receiver)
    /\ Ambient(algebras, lastId) = Ambient(algebras, receiver)

(***************************************************************************)
(* Properties of the pytest session (SpecTest).                            *)
(***************************************************************************)

====
